---- MODULE Spec2Model ----
(***************************************************************************)
(* Model of src/rpc/util.cpp: the RPC helpers that turn external strings   *)
(* into keys (HexToPubKey, AddrToPubKey), build a multisig redeem script   *)
(* (CreateMultisigRedeemscript) and render help text (RPCHelpMan::ToString,*)
(* RPCArg::ToString, RPCArg::ToStringObj).                                 *)
(*                                                                         *)
(* A thrown JSONRPCError is the record [kind |-> "error", code, message];  *)
(* a failed assert() ends the process and is the record [kind |-> "abort"];*)
(* a returned value is [kind |-> "value", value].                          *)
(***************************************************************************)
EXTENDS Integers, Sequences, FiniteSets, TLC

VARIABLES
    pc,          \* "idle" | "loop" (inside RPCHelpMan::ToString) | "done" | "aborted"
    call,        \* the call in progress: its name and its arguments
    result,      \* what the call gave back to its caller
    keystore,    \* the CKeyStore handed to AddrToPubKey
    ret,         \* RPCHelpMan::ToString: the local std::string ret
    is_optional, \* RPCHelpMan::ToString: the local bool is_optional
    idx          \* RPCHelpMan::ToString: position of the range-for over m_args

vars == <<pc, call, result, keystore, ret, is_optional, idx>>

NoCall == [op |-> "none"]
NoResult == [kind |-> "none"]

JSONRPCError(code, message) == [kind |-> "error", code |-> code, message |-> message]

Returned(v) == [kind |-> "value", value |-> v]

(***************************************************************************)
(* Bounds of the model.                                                    *)
(***************************************************************************)
MaxKeys == 17      \* longest pubkeys vector handed to CreateMultisigRedeemscript
MaxHexLen == 3     \* longest text handed to HexToPubKey
MaxArgs == 3       \* longest m_args of an RPCHelpMan
MaxInner == 2      \* longest m_inner of a composite RPCArg over scalars
MaxDepth == 2      \* levels of composite RPCArg wrapped around those

(***************************************************************************)
(* CreateMultisigRedeemscript                                              *)
(***************************************************************************)
MAX_SCRIPT_ELEMENT_SIZE == 520
COMPRESSED_PUBLIC_KEY_SIZE == 33
PUBLIC_KEY_SIZE == 65

\* A CPubKey handed to the script builder, by its serialized size.
CPubKeyOfSize(n) == [size |-> n]

\* script << CScript::EncodeOP_N(n): one opcode.
EncodeOP_N(n) == [op |-> "OP_N", n |-> n]

\* script << ToByteVector(key): a direct push, one length byte then the data.
PushKey(key) == [op |-> "PUSH", key |-> key]

OP_CHECKMULTISIG == [op |-> "OP_CHECKMULTISIG"]

\* The standard "M of N" template: M, the keys in the order given, N, CHECKMULTISIG.
GetScriptForMultisig(required, pubkeys) ==
    <<EncodeOP_N(required)>>
        \o [i \in 1..Len(pubkeys) |-> PushKey(pubkeys[i])]
        \o <<EncodeOP_N(Len(pubkeys)), OP_CHECKMULTISIG>>

ElementSize(e) == IF e.op = "PUSH" THEN 1 + e.key.size ELSE 1

RECURSIVE ScriptSize(_)
\* CScript::size(): the serialized length in bytes.
ScriptSize(script) ==
    IF script = <<>> THEN 0
    ELSE ElementSize(Head(script)) + ScriptSize(Tail(script))

MsgInvalidThreshold ==
    "a multisignature address must require at least one key to redeem"

MsgInsufficientKeys(got, need) ==
    "not enough keys supplied (got " \o ToString(got)
        \o " keys, but need at least " \o ToString(need) \o " to redeem)"

MsgTooManyKeys ==
    "Number of keys involved in the multisignature address creation > 16\nReduce the number"

MsgScriptTooLarge(size, limit) ==
    "redeemScript exceeds size limit: " \o ToString(size) \o " > " \o ToString(limit)

\* Mutant: the key-count checks in the wrong order.
CreateMultisigRedeemscript_CountFirst(required, pubkeys) ==
    IF Len(pubkeys) > 16
    THEN JSONRPCError("RPC_INVALID_PARAMETER", MsgTooManyKeys)
    ELSE IF required < 1
    THEN JSONRPCError("RPC_INVALID_PARAMETER", MsgInvalidThreshold)
    ELSE IF Len(pubkeys) < required
    THEN JSONRPCError("RPC_INVALID_PARAMETER",
                      MsgInsufficientKeys(Len(pubkeys), required))
    ELSE LET script == GetScriptForMultisig(required, pubkeys) IN
         IF ScriptSize(script) > MAX_SCRIPT_ELEMENT_SIZE
         THEN JSONRPCError("RPC_INVALID_PARAMETER",
                           MsgScriptTooLarge(ScriptSize(script), MAX_SCRIPT_ELEMENT_SIZE))
         ELSE Returned(script)

\* Mutant: the key-count limit off by one.
CreateMultisigRedeemscript_OffByOne(required, pubkeys) ==
    IF required < 1
    THEN JSONRPCError("RPC_INVALID_PARAMETER", MsgInvalidThreshold)
    ELSE IF Len(pubkeys) < required
    THEN JSONRPCError("RPC_INVALID_PARAMETER",
                      MsgInsufficientKeys(Len(pubkeys), required))
    ELSE IF Len(pubkeys) > 17
    THEN JSONRPCError("RPC_INVALID_PARAMETER", MsgTooManyKeys)
    ELSE LET script == GetScriptForMultisig(required, pubkeys) IN
         IF ScriptSize(script) > MAX_SCRIPT_ELEMENT_SIZE
         THEN JSONRPCError("RPC_INVALID_PARAMETER",
                           MsgScriptTooLarge(ScriptSize(script), MAX_SCRIPT_ELEMENT_SIZE))
         ELSE Returned(script)

\* Mutant: the size check on the built script left out.
CreateMultisigRedeemscript_NoSizeCheck(required, pubkeys) ==
    IF required < 1
    THEN JSONRPCError("RPC_INVALID_PARAMETER", MsgInvalidThreshold)
    ELSE IF Len(pubkeys) < required
    THEN JSONRPCError("RPC_INVALID_PARAMETER",
                      MsgInsufficientKeys(Len(pubkeys), required))
    ELSE IF Len(pubkeys) > 16
    THEN JSONRPCError("RPC_INVALID_PARAMETER", MsgTooManyKeys)
    ELSE Returned(GetScriptForMultisig(required, pubkeys))

CreateMultisigRedeemscript(required, pubkeys) ==
    IF required < 1
    THEN JSONRPCError("RPC_INVALID_PARAMETER", MsgInvalidThreshold)
    ELSE IF Len(pubkeys) < required
    THEN JSONRPCError("RPC_INVALID_PARAMETER",
                      MsgInsufficientKeys(Len(pubkeys), required))
    ELSE IF Len(pubkeys) > 16
    THEN JSONRPCError("RPC_INVALID_PARAMETER", MsgTooManyKeys)
    ELSE LET script == GetScriptForMultisig(required, pubkeys) IN
         IF ScriptSize(script) > MAX_SCRIPT_ELEMENT_SIZE
         THEN JSONRPCError("RPC_INVALID_PARAMETER",
                           MsgScriptTooLarge(ScriptSize(script), MAX_SCRIPT_ELEMENT_SIZE))
         ELSE Returned(script)

\* The key vectors tried: n keys, the first u of one size and the rest of the other.
KeyVectors ==
    { [i \in 1..n |-> CPubKeyOfSize(IF i <= u THEN a ELSE b)] :
        <<n, u, a, b>> \in
            { t \in (0..MaxKeys) \X (0..MaxKeys)
                    \X {COMPRESSED_PUBLIC_KEY_SIZE, PUBLIC_KEY_SIZE}
                    \X {COMPRESSED_PUBLIC_KEY_SIZE, PUBLIC_KEY_SIZE} :
                t[2] <= t[1] /\ t[3] # t[4] } }

Thresholds == (0 - 1)..(MaxKeys + 1)

HelpLocalsIdle == ret = "" /\ is_optional = FALSE /\ idx = 0

EmptyKeystore == <<>>

CallCreateMultisigRedeemscript ==
    /\ pc = "idle"
    /\ \E required \in Thresholds, pubkeys \in KeyVectors :
          /\ call' = [op |-> "CreateMultisigRedeemscript",
                      required |-> required, pubkeys |-> pubkeys]
          /\ result' = CreateMultisigRedeemscript(required, pubkeys)
    /\ pc' = "done"
    /\ UNCHANGED <<keystore, ret, is_optional, idx>>

\* The caller takes the result; the next call can start.
ReturnToCaller ==
    /\ pc \in {"done", "aborted"}
    /\ pc' = "idle"
    /\ call' = NoCall
    /\ result' = NoResult
    /\ ret' = ""
    /\ is_optional' = FALSE
    /\ idx' = 0
    /\ UNCHANGED keystore

InitScript ==
    /\ pc = "idle"
    /\ call = NoCall
    /\ result = NoResult
    /\ keystore = EmptyKeystore
    /\ HelpLocalsIdle

NextScript == CallCreateMultisigRedeemscript \/ ReturnToCaller

SpecScript == InitScript /\ [][NextScript]_vars

IsMultisigCall == pc = "done" /\ call.op = "CreateMultisigRedeemscript"

InvalidThreshold == JSONRPCError("RPC_INVALID_PARAMETER", MsgInvalidThreshold)

InsufficientKeys(got, need) ==
    JSONRPCError("RPC_INVALID_PARAMETER", MsgInsufficientKeys(got, need))

TooManyKeys == JSONRPCError("RPC_INVALID_PARAMETER", MsgTooManyKeys)

IsScriptTooLarge(r) ==
    /\ r.kind = "error"
    /\ r.code = "RPC_INVALID_PARAMETER"
    /\ \E size \in (MAX_SCRIPT_ELEMENT_SIZE + 1)..(3 + (MaxKeys + 1) * (PUBLIC_KEY_SIZE + 1)) :
          r.message = MsgScriptTooLarge(size, MAX_SCRIPT_ELEMENT_SIZE)

\* C1: the checks run in the order threshold, enough keys, at most 16 keys,
\* script size; the first check that fails decides the error, and a script is
\* returned only when none fails.
C1_FirstFailingCheckDecides ==
    IsMultisigCall =>
        LET required == call.required
            n == Len(call.pubkeys)
            size == 3 + n + (LET RECURSIVE Sum(_)
                                 Sum(i) == IF i = 0 THEN 0
                                           ELSE call.pubkeys[i].size + Sum(i - 1)
                             IN Sum(n))
        IN  /\ required < 1 => result = InvalidThreshold
            /\ required >= 1 /\ n < required => result = InsufficientKeys(n, required)
            /\ required >= 1 /\ n >= required /\ n > 16 => result = TooManyKeys
            /\ required >= 1 /\ n >= required /\ n <= 16 /\ size > MAX_SCRIPT_ELEMENT_SIZE
                  => IsScriptTooLarge(result)
            /\ required >= 1 /\ n >= required /\ n <= 16 /\ size <= MAX_SCRIPT_ELEMENT_SIZE
                  => result.kind = "value"

\* C1 witness: a call that violates the threshold check and the key-count
\* limit at once, and is answered with the threshold error.
C1_Witness ==
    /\ IsMultisigCall
    /\ call.required < 1
    /\ Len(call.pubkeys) > 16
    /\ result = InvalidThreshold

\* C2 as stated: more than 16 keys always gives TooManyKeys, whatever required is.
C2_TooManyKeysRegardless ==
    IsMultisigCall /\ Len(call.pubkeys) > 16 => result = TooManyKeys

\* C2 amended: more than 16 keys gives TooManyKeys when the two earlier checks
\* pass (1 <= required <= number of keys); required < 1 gives InvalidThreshold
\* and required > number of keys gives InsufficientKeys instead.
C2_TooManyKeysAfterEarlierChecks ==
    IsMultisigCall /\ Len(call.pubkeys) > 16 =>
        /\ 1 <= call.required /\ call.required <= Len(call.pubkeys)
              => result = TooManyKeys
        /\ call.required < 1 => result = InvalidThreshold
        /\ call.required > Len(call.pubkeys) /\ call.required >= 1
              => result = InsufficientKeys(Len(call.pubkeys), call.required)

\* C2 witness: 17 keys and a threshold the earlier checks accept.
C2_Witness ==
    /\ IsMultisigCall
    /\ Len(call.pubkeys) = 17
    /\ call.required = 2
    /\ result = TooManyKeys

\* C3: a returned script has 1 <= required <= number of keys <= 16 and a
\* serialized length of at most MAX_SCRIPT_ELEMENT_SIZE; a longer script is
\* answered with ScriptTooLarge and nothing is returned.
C3_ReturnedScriptWithinLimits ==
    IsMultisigCall =>
        /\ result.kind = "value" =>
              /\ 1 <= call.required
              /\ call.required <= Len(call.pubkeys)
              /\ Len(call.pubkeys) <= 16
              /\ ScriptSize(result.value) <= MAX_SCRIPT_ELEMENT_SIZE
              /\ result.value = GetScriptForMultisig(call.required, call.pubkeys)
        /\ ( /\ 1 <= call.required
             /\ call.required <= Len(call.pubkeys)
             /\ Len(call.pubkeys) <= 16
             /\ ScriptSize(GetScriptForMultisig(call.required, call.pubkeys))
                    > MAX_SCRIPT_ELEMENT_SIZE )
              => IsScriptTooLarge(result)

\* C3 witness: a call whose counts pass but whose script is too long (16
\* compressed keys), answered with ScriptTooLarge.
C3_Witness ==
    /\ IsMultisigCall
    /\ Len(call.pubkeys) = 16
    /\ \A i \in 1..16 : call.pubkeys[i].size = COMPRESSED_PUBLIC_KEY_SIZE
    /\ IsScriptTooLarge(result)

(***************************************************************************)
(* HexToPubKey                                                             *)
(***************************************************************************)
\* The characters texts are made of: hex digits of both cases and one that is none.
TextAlphabet == {"0", "2", "a", "F", "g"}

RECURSIVE TextsOfLen(_)
TextsOfLen(n) ==
    IF n = 0 THEN {<<>>}
    ELSE {<<c>> \o t : c \in TextAlphabet, t \in TextsOfLen(n - 1)}

\* A std::string is held as the sequence of its characters.
Texts == UNION {TextsOfLen(n) : n \in 0..MaxHexLen}

RECURSIVE Str(_)
\* The std::string as one string, as it appears inside a message.
Str(text) == IF text = <<>> THEN "" ELSE Head(text) \o Str(Tail(text))

\* util/strencodings: the value of a hex digit, -1 for any other character.
HexDigit(c) ==
    CASE c = "0" -> 0
      [] c = "2" -> 2
      [] c = "a" -> 10
      [] c = "F" -> 15
      [] OTHER -> 0 - 1

\* util/strencodings: only hex digits, not empty, an even number of them.
IsHex(str) ==
    /\ \A i \in 1..Len(str) : HexDigit(str[i]) >= 0
    /\ Len(str) > 0
    /\ Len(str) % 2 = 0

RECURSIVE ParseHex(_)
\* util/strencodings: bytes from pairs of digits, up to the first pair that is none.
ParseHex(str) ==
    IF Len(str) < 2 \/ HexDigit(str[1]) < 0 \/ HexDigit(str[2]) < 0 THEN <<>>
    ELSE <<16 * HexDigit(str[1]) + HexDigit(str[2])>> \o ParseHex(Tail(Tail(str)))

\* A CPubKey: its bytes, and whether libsecp256k1 parses them as a curve point.
CPubKey(vch, onCurve) == [vch |-> vch, onCurve |-> onCurve]

\* CPubKey::IsFullyValid: the key holds bytes and they are a point of the curve.
IsFullyValid(pubkey) == Len(pubkey.vch) > 0 /\ pubkey.onCurve

MsgInvalidPublicKey(hex_in) == "Invalid public key: " \o Str(hex_in)

\* Mutant: the IsHex check left out, so whatever ParseHex decodes is used.
HexToPubKey_NoHexCheck(hex_in, onCurve) ==
    LET vchPubKey == CPubKey(ParseHex(hex_in), onCurve) IN
    IF ~IsFullyValid(vchPubKey)
    THEN JSONRPCError("RPC_INVALID_ADDRESS_OR_KEY", MsgInvalidPublicKey(hex_in))
    ELSE Returned(vchPubKey)

\* onCurve: libsecp256k1's answer for the decoded bytes.
HexToPubKey(hex_in, onCurve) ==
    IF ~IsHex(hex_in)
    THEN JSONRPCError("RPC_INVALID_ADDRESS_OR_KEY", MsgInvalidPublicKey(hex_in))
    ELSE LET vchPubKey == CPubKey(ParseHex(hex_in), onCurve) IN
         IF ~IsFullyValid(vchPubKey)
         THEN JSONRPCError("RPC_INVALID_ADDRESS_OR_KEY", MsgInvalidPublicKey(hex_in))
         ELSE Returned(vchPubKey)

CallHexToPubKey ==
    /\ pc = "idle"
    /\ \E hex_in \in Texts, onCurve \in BOOLEAN :
          /\ call' = [op |-> "HexToPubKey", hex_in |-> hex_in, onCurve |-> onCurve]
          /\ result' = HexToPubKey(hex_in, onCurve)
    /\ pc' = "done"
    /\ UNCHANGED <<keystore, ret, is_optional, idx>>

(***************************************************************************)
(* AddrToPubKey                                                            *)
(***************************************************************************)
CNoDestination == [which |-> "CNoDestination"]
CKeyID(hash) == [which |-> "CKeyID", hash |-> hash]
CScriptID(hash) == [which |-> "CScriptID", hash |-> hash]

\* The address texts tried; hash 0 stands for the all-zero uint160.
Addresses == {"", "garbage", "key0", "key1", "key2", "script1"}

\* key_io: the destination an address text encodes, CNoDestination if none.
DecodeDestination(addr_in) ==
    CASE addr_in = "key0" -> CKeyID(0)
      [] addr_in = "key1" -> CKeyID(1)
      [] addr_in = "key2" -> CKeyID(2)
      [] addr_in = "script1" -> CScriptID(1)
      [] OTHER -> CNoDestination

IsValidDestination(dest) == dest.which # "CNoDestination"

\* keystore: the id of the key a destination names, the null id if it names none.
GetKeyForDestination(store, dest) ==
    IF dest.which = "CKeyID" THEN dest.hash ELSE 0

\* uint160::IsNull
IsNull(key) == key = 0

NoPubKey == [vch |-> <<>>, onCurve |-> FALSE]

KeyIds == {1, 2}

\* A keystore maps a key id to the full public key it holds, or to none.
Keystores ==
    [KeyIds -> {NoPubKey} \cup {CPubKey(<<2, 15>>, b) : b \in BOOLEAN}]

\* CKeyStore::GetPubKey: whether the store holds the full key (the out value
\* is Fetched).
GetPubKey(store, key) == key \in DOMAIN store /\ store[key] # NoPubKey

Fetched(store, key) == store[key]

MsgInvalidAddress(addr_in) == "Invalid address: " \o addr_in
MsgNoKeyForDestination(addr_in) == addr_in \o " does not refer to a key"
MsgNoFullKey(addr_in) == "no full public key for address " \o addr_in
MsgCorruptedKeyStore == "Wallet contains an invalid public key"

\* Mutant: the invalid stored key reported with the code of a bad address.
AddrToPubKey_WrongCode(store, addr_in) ==
    LET dest == DecodeDestination(addr_in) IN
    IF ~IsValidDestination(dest)
    THEN JSONRPCError("RPC_INVALID_ADDRESS_OR_KEY", MsgInvalidAddress(addr_in))
    ELSE LET key == GetKeyForDestination(store, dest) IN
         IF IsNull(key)
         THEN JSONRPCError("RPC_INVALID_ADDRESS_OR_KEY", MsgNoKeyForDestination(addr_in))
         ELSE IF ~GetPubKey(store, key)
         THEN JSONRPCError("RPC_INVALID_ADDRESS_OR_KEY", MsgNoFullKey(addr_in))
         ELSE IF ~IsFullyValid(Fetched(store, key))
         THEN JSONRPCError("RPC_INVALID_ADDRESS_OR_KEY", MsgCorruptedKeyStore)
         ELSE Returned(Fetched(store, key))

AddrToPubKey(store, addr_in) ==
    LET dest == DecodeDestination(addr_in) IN
    IF ~IsValidDestination(dest)
    THEN JSONRPCError("RPC_INVALID_ADDRESS_OR_KEY", MsgInvalidAddress(addr_in))
    ELSE LET key == GetKeyForDestination(store, dest) IN
         IF IsNull(key)
         THEN JSONRPCError("RPC_INVALID_ADDRESS_OR_KEY", MsgNoKeyForDestination(addr_in))
         ELSE IF ~GetPubKey(store, key)
         THEN JSONRPCError("RPC_INVALID_ADDRESS_OR_KEY", MsgNoFullKey(addr_in))
         ELSE IF ~IsFullyValid(Fetched(store, key))
         THEN JSONRPCError("RPC_INTERNAL_ERROR", MsgCorruptedKeyStore)
         ELSE Returned(Fetched(store, key))

CallAddrToPubKey ==
    /\ pc = "idle"
    /\ \E addr_in \in Addresses :
          /\ call' = [op |-> "AddrToPubKey", addr_in |-> addr_in]
          /\ result' = AddrToPubKey(keystore, addr_in)
    /\ pc' = "done"
    /\ UNCHANGED <<keystore, ret, is_optional, idx>>

\* How an error code is presented: the caller's fault or the server's.
ErrorCategory(code) ==
    IF code = "RPC_INTERNAL_ERROR" THEN "server-error" ELSE "client-error"

InitKeys ==
    /\ pc = "idle"
    /\ call = NoCall
    /\ result = NoResult
    /\ keystore \in Keystores
    /\ HelpLocalsIdle

NextKeys == CallHexToPubKey \/ CallAddrToPubKey \/ ReturnToCaller

SpecKeys == InitKeys /\ [][NextKeys]_vars

IsAddrCall == pc = "done" /\ call.op = "AddrToPubKey"

C6_ChecksInOrder ==
    IsAddrCall =>
        LET addr == call.addr_in
            dest == DecodeDestination(addr)
            recognizable == dest.which \in {"CKeyID", "CScriptID"}
            namesKey == dest.which = "CKeyID" /\ dest.hash # 0
            held == namesKey /\ keystore[dest.hash] # NoPubKey
            sound == held /\ Len(keystore[dest.hash].vch) > 0
                          /\ keystore[dest.hash].onCurve
        IN  /\ ~recognizable =>
                  result = JSONRPCError("RPC_INVALID_ADDRESS_OR_KEY", MsgInvalidAddress(addr))
            /\ recognizable /\ ~namesKey =>
                  result = JSONRPCError("RPC_INVALID_ADDRESS_OR_KEY",
                                        MsgNoKeyForDestination(addr))
            /\ namesKey /\ ~held =>
                  result = JSONRPCError("RPC_INVALID_ADDRESS_OR_KEY", MsgNoFullKey(addr))
            /\ held /\ ~sound =>
                  result = JSONRPCError("RPC_INTERNAL_ERROR", MsgCorruptedKeyStore)
            /\ result.kind = "value" <=> sound
            /\ sound => result.value = keystore[dest.hash]
            /\ result.kind = "error" =>
                  (ErrorCategory(result.code) = "server-error"
                      <=> result.message = MsgCorruptedKeyStore)

\* C6: AddrToPubKey checks, in this order, that the address decodes, that the
\* destination names a key, that the keystore holds the full key and that the
\* key is fully valid; the first failure decides the error, the first three
\* are client errors and the last a server error, a key is returned only when
\* all four pass, and the keystore is never changed.
C6_AddrToPubKeyContract == []C6_ChecksInOrder /\ [][keystore' = keystore]_vars

\* C6 witness: a stored key that is not fully valid, answered with the
\* internal error.
C6_Witness ==
    /\ IsAddrCall
    /\ call.addr_in = "key1"
    /\ keystore[1] = CPubKey(<<2, 15>>, FALSE)
    /\ result = JSONRPCError("RPC_INTERNAL_ERROR", MsgCorruptedKeyStore)

IsHexCall == pc = "done" /\ call.op = "HexToPubKey"

\* What tells one error of HexToPubKey from another: its code and the text
\* of its message in front of the echoed input.
MessagePrefixes == {"Invalid public key: "}

ErrorKind(r, hex_in) ==
    [code |-> r.code,
     prefix |-> CHOOSE p \in MessagePrefixes : r.message = p \o Str(hex_in)]

\* C7 as stated: the error for a text that is not hex and the error for hex
\* that is no valid key are of two distinguishable kinds.
C7_TwoDistinguishableErrorKinds ==
    IsHexCall /\ IsHex(call.hex_in) /\ result.kind = "error" =>
        \A other \in Texts :
            ~IsHex(other) =>
                ErrorKind(HexToPubKey(other, call.onCurve), other)
                    # ErrorKind(result, call.hex_in)

\* C7 amended: HexToPubKey fails for every text that is not hex and for every
\* hex text whose bytes are no fully valid key, in both cases with the same
\* error (RPC_INVALID_ADDRESS_OR_KEY, "Invalid public key: " and the text);
\* it returns the decoded key only when the text is hex and the key is valid.
C7_OneErrorForBothFailures ==
    IsHexCall =>
        LET text == call.hex_in
            hex == /\ Len(text) > 0
                   /\ Len(text) % 2 = 0
                   /\ \A i \in 1..Len(text) : text[i] \in {"0", "2", "a", "F"}
        IN  /\ ~hex => result = JSONRPCError("RPC_INVALID_ADDRESS_OR_KEY",
                                             "Invalid public key: " \o Str(text))
            /\ hex /\ ~call.onCurve =>
                  result = JSONRPCError("RPC_INVALID_ADDRESS_OR_KEY",
                                        "Invalid public key: " \o Str(text))
            /\ result.kind = "value" <=> hex /\ call.onCurve
            /\ result.kind = "value" => result.value.vch = ParseHex(text)

\* C7 witness: well-formed hex that is no valid key, answered with the error
\* a text that is not hex gets too.
C7_Witness ==
    /\ IsHexCall
    /\ call.hex_in = <<"0", "2">>
    /\ ~call.onCurve
    /\ result = JSONRPCError("RPC_INVALID_ADDRESS_OR_KEY", "Invalid public key: 02")

(***************************************************************************)
(* RPCArg::ToString, RPCArg::ToStringObj                                   *)
(***************************************************************************)
RPCArg(name, type, inner, optional) ==
    [m_name |-> name, m_type |-> type, m_inner |-> inner, m_optional |-> optional]

ScalarTypes == {"STR", "STR_HEX", "NUM", "AMOUNT", "BOOL"}
CompositeTypes == {"ARR", "OBJ", "OBJ_USER_KEYS"}

\* A failed assert(expr): the process is aborted and nothing is returned.
AssertionFailed(expr) == [kind |-> "abort", assertion |-> expr]

\* left + right for renderings that may have aborted: the first abort wins.
Cat(left, right) ==
    IF left.kind = "abort" THEN left
    ELSE IF right.kind = "abort" THEN right
    ELSE Returned(left.value \o right.value)

RECURSIVE RPCArg_ToString(_)
RECURSIVE RPCArg_ToStringObj(_)
RECURSIVE InnerTokens(_)
RECURSIVE InnerFields(_)

\* for (const auto &i : m_inner) res += i.ToString() + ",";
InnerTokens(inner) ==
    IF inner = <<>> THEN Returned("")
    ELSE Cat(Cat(RPCArg_ToString(Head(inner)), Returned(",")), InnerTokens(Tail(inner)))

\* for (i = 0; i < m_inner.size();) { res += m_inner[i].ToStringObj();
\*                                    if (++i < m_inner.size()) res += ","; }
InnerFields(inner) ==
    IF inner = <<>> THEN Returned("")
    ELSE Cat(RPCArg_ToStringObj(Head(inner)),
             IF Len(inner) > 1
             THEN Cat(Returned(","), InnerFields(Tail(inner)))
             ELSE Returned(""))

\* Mutant: an object inside an object rendered as an empty object.
RPCArg_ToStringObj_RendersObjects(arg) ==
    LET res == "\"" \o arg.m_name \o "\":" IN
    CASE arg.m_type = "STR" -> Returned(res \o "\"str\"")
      [] arg.m_type = "STR_HEX" -> Returned(res \o "\"hex\"")
      [] arg.m_type = "NUM" -> Returned(res \o "n")
      [] arg.m_type = "AMOUNT" -> Returned(res \o "amount")
      [] arg.m_type = "BOOL" -> Returned(res \o "bool")
      [] arg.m_type = "ARR" ->
            Cat(Cat(Returned(res \o "["), InnerTokens(arg.m_inner)), Returned("...]"))
      [] arg.m_type \in {"OBJ", "OBJ_USER_KEYS"} -> Returned(res \o "{}")
      [] OTHER -> AssertionFailed("false")

\* Mutant: a hex string described as a plain string.
RPCArg_ToStringObj_HexAsStr(arg) ==
    LET res == "\"" \o arg.m_name \o "\":" IN
    CASE arg.m_type = "STR" -> Returned(res \o "\"str\"")
      [] arg.m_type = "STR_HEX" -> Returned(res \o "\"str\"")
      [] arg.m_type = "NUM" -> Returned(res \o "n")
      [] arg.m_type = "AMOUNT" -> Returned(res \o "amount")
      [] arg.m_type = "BOOL" -> Returned(res \o "bool")
      [] arg.m_type = "ARR" ->
            Cat(Cat(Returned(res \o "["), InnerTokens(arg.m_inner)), Returned("...]"))
      [] arg.m_type \in {"OBJ", "OBJ_USER_KEYS"} -> AssertionFailed("false")
      [] OTHER -> AssertionFailed("false")

RPCArg_ToStringObj(arg) ==
    LET res == "\"" \o arg.m_name \o "\":" IN
    CASE arg.m_type = "STR" -> Returned(res \o "\"str\"")
      [] arg.m_type = "STR_HEX" -> Returned(res \o "\"hex\"")
      [] arg.m_type = "NUM" -> Returned(res \o "n")
      [] arg.m_type = "AMOUNT" -> Returned(res \o "amount")
      [] arg.m_type = "BOOL" -> Returned(res \o "bool")
      [] arg.m_type = "ARR" ->
            Cat(Cat(Returned(res \o "["), InnerTokens(arg.m_inner)), Returned("...]"))
      [] arg.m_type \in {"OBJ", "OBJ_USER_KEYS"} -> AssertionFailed("false")
      [] OTHER -> AssertionFailed("false")

\* Mutant: the comma after an array's child left out.
RPCArg_ToString_NoComma(arg) ==
    CASE arg.m_type \in {"STR_HEX", "STR"} -> Returned("\"" \o arg.m_name \o "\"")
      [] arg.m_type \in {"NUM", "AMOUNT", "BOOL"} -> Returned(arg.m_name)
      [] arg.m_type \in {"OBJ", "OBJ_USER_KEYS"} ->
            Cat(Cat(Returned("{"), InnerFields(arg.m_inner)),
                IF arg.m_type = "OBJ" THEN Returned("}") ELSE Returned(",...}"))
      [] arg.m_type = "ARR" ->
            Cat(Cat(Returned("["),
                    IF arg.m_inner = <<>> THEN Returned("")
                    ELSE RPCArg_ToString(Head(arg.m_inner))),
                Returned("...]"))
      [] OTHER -> AssertionFailed("false")

RPCArg_ToString(arg) ==
    CASE arg.m_type \in {"STR_HEX", "STR"} -> Returned("\"" \o arg.m_name \o "\"")
      [] arg.m_type \in {"NUM", "AMOUNT", "BOOL"} -> Returned(arg.m_name)
      [] arg.m_type \in {"OBJ", "OBJ_USER_KEYS"} ->
            Cat(Cat(Returned("{"), InnerFields(arg.m_inner)),
                IF arg.m_type = "OBJ" THEN Returned("}") ELSE Returned(",...}"))
      [] arg.m_type = "ARR" ->
            Cat(Cat(Returned("["), InnerTokens(arg.m_inner)), Returned("...]"))
      [] OTHER -> AssertionFailed("false")

\* The argument schemas tried.
InnerNames == {"x", "n"}

ScalarArgs == {RPCArg(name, type, <<>>, FALSE) : name \in InnerNames, type \in ScalarTypes}

RECURSIVE ArgListsOver(_, _)
\* The sequences of at most n members of S.
ArgListsOver(S, n) ==
    IF n = 0 THEN {<<>>}
    ELSE LET shorter == ArgListsOver(S, n - 1) IN
         shorter \cup {<<a>> \o l : a \in S, l \in {k \in shorter : Len(k) = n - 1}}

FlatArgs ==
    ScalarArgs \cup
    {RPCArg("x", type, inner, FALSE) :
        type \in CompositeTypes, inner \in ArgListsOver(ScalarArgs, MaxInner)}

\* Composites of two children, a scalar and then an empty composite.
MixedArgs ==
    {RPCArg("x", type, <<first, RPCArg("n", second, <<>>, FALSE)>>, FALSE) :
        type \in CompositeTypes, first \in ScalarArgs, second \in CompositeTypes}

RECURSIVE NestedArgs(_)
\* FlatArgs and MixedArgs wrapped in up to d further composites of one child each.
NestedArgs(d) ==
    IF d = 0 THEN FlatArgs \cup MixedArgs
    ELSE LET below == NestedArgs(d - 1) IN
         below \cup {RPCArg("x", type, <<child>>, FALSE) :
                        type \in CompositeTypes, child \in below}

ArgUniverse == NestedArgs(MaxDepth)

CallRPCArgToString ==
    /\ pc = "idle"
    /\ \E arg \in ArgUniverse :
          /\ call' = [op |-> "RPCArg::ToString", arg |-> arg]
          /\ result' = RPCArg_ToString(arg)
          /\ pc' = IF result'.kind = "abort" THEN "aborted" ELSE "done"
    /\ UNCHANGED <<keystore, ret, is_optional, idx>>

CallRPCArgToStringObj ==
    /\ pc = "idle"
    /\ \E arg \in ArgUniverse :
          /\ call' = [op |-> "RPCArg::ToStringObj", arg |-> arg]
          /\ result' = RPCArg_ToStringObj(arg)
          /\ pc' = IF result'.kind = "abort" THEN "aborted" ELSE "done"
    /\ UNCHANGED <<keystore, ret, is_optional, idx>>

(***************************************************************************)
(* RPCHelpMan::ToString, one iteration of its loop per step                *)
(***************************************************************************)
\* ret += arg.ToString(), when the token was rendered.
AppendToken(r, opt, arg) ==
    LET token == RPCArg_ToString(arg) IN
    IF token.kind = "abort" THEN token
    ELSE [kind |-> "value", ret |-> r \o token.value, is_optional |-> opt]

\* Mutant: the assert on a required argument after an optional one left out.
LoopBody_NoAssert(r, opt, arg) ==
    IF arg.m_optional
    THEN AppendToken(IF ~opt THEN r \o " " \o "( " ELSE r \o " ", TRUE, arg)
    ELSE AppendToken(r \o " ", opt, arg)

\* Mutant: the opening marker written in front of every optional argument.
LoopBody_AlwaysOpens(r, opt, arg) ==
    IF arg.m_optional
    THEN AppendToken(r \o " " \o "( ", TRUE, arg)
    ELSE IF opt THEN AssertionFailed("!is_optional")
    ELSE AppendToken(r \o " ", opt, arg)

\* The body of the range-for: the locals after it, or the abort.
LoopBody(r, opt, arg) ==
    IF arg.m_optional
    THEN AppendToken(IF ~opt THEN r \o " " \o "( " ELSE r \o " ", TRUE, arg)
    ELSE IF opt THEN AssertionFailed("!is_optional")
    ELSE AppendToken(r \o " ", opt, arg)

\* After the loop: the closing marker if an optional section is open, and the
\* line break.
LoopExit(r, opt) == (IF opt THEN r \o " )" ELSE r) \o "\n"

CommandNames == {"foo", "stop"}

SignatureNames == {"required_a", "optional_b", "optional_c"}

ObjectInObject(optional) ==
    RPCArg("o", "OBJ", <<RPCArg("x", "OBJ", <<>>, FALSE)>>, optional)

\* The top-level arguments tried: numbers under three names, a string, an
\* array of strings and an object holding an object, each required or optional.
SignatureArgs ==
    {RPCArg(name, "NUM", <<>>, o) : name \in SignatureNames, o \in BOOLEAN}
    \cup {RPCArg("x", "STR", <<>>, o) : o \in BOOLEAN}
    \cup {RPCArg("a", "ARR", <<RPCArg("x", "STR", <<>>, FALSE)>>, o) : o \in BOOLEAN}
    \cup {ObjectInObject(o) : o \in BOOLEAN}

CallRPCHelpManToString ==
    /\ pc = "idle"
    /\ \E m_name \in CommandNames, m_args \in ArgListsOver(SignatureArgs, MaxArgs) :
          /\ call' = [op |-> "RPCHelpMan::ToString", m_name |-> m_name, m_args |-> m_args]
          /\ ret' = m_name
    /\ is_optional' = FALSE
    /\ idx' = 1
    /\ pc' = "loop"
    /\ UNCHANGED <<result, keystore>>

RPCHelpManLoop ==
    /\ pc = "loop"
    /\ idx <= Len(call.m_args)
    /\ LET out == LoopBody(ret, is_optional, call.m_args[idx]) IN
       IF out.kind = "abort"
       THEN /\ pc' = "aborted"
            /\ result' = out
            /\ UNCHANGED <<ret, is_optional, idx>>
       ELSE /\ ret' = out.ret
            /\ is_optional' = out.is_optional
            /\ idx' = idx + 1
            /\ UNCHANGED <<pc, result>>
    /\ UNCHANGED <<call, keystore>>

RPCHelpManReturn ==
    /\ pc = "loop"
    /\ idx > Len(call.m_args)
    /\ ret' = LoopExit(ret, is_optional)
    /\ result' = Returned(ret')
    /\ pc' = "done"
    /\ UNCHANGED <<call, keystore, is_optional, idx>>

InitHelp ==
    /\ pc = "idle"
    /\ call = NoCall
    /\ result = NoResult
    /\ keystore = EmptyKeystore
    /\ HelpLocalsIdle

NextHelp ==
    \/ CallRPCArgToString
    \/ CallRPCArgToStringObj
    \/ CallRPCHelpManToString
    \/ RPCHelpManLoop
    \/ RPCHelpManReturn
    \/ ReturnToCaller

SpecHelp == InitHelp /\ [][NextHelp]_vars

IsHelpCall == call.op = "RPCHelpMan::ToString"
HelpCallEnded == IsHelpCall /\ pc \in {"done", "aborted"}

OptionalBefore(args, j) == \E i \in 1..(j - 1) : args[i].m_optional

RequiredAfterOptional(args) ==
    \E j \in 1..Len(args) : ~args[j].m_optional /\ OptionalBefore(args, j)

\* The first required argument that follows an optional one.
FirstForbidden(args) ==
    CHOOSE j \in 1..Len(args) :
        /\ ~args[j].m_optional /\ OptionalBefore(args, j)
        /\ \A k \in 1..(j - 1) : args[k].m_optional \/ ~OptionalBefore(args, k)

IsObjectType(arg) == arg.m_type \in {"OBJ", "OBJ_USER_KEYS"}

HasObjectChild(arg) == \E i \in 1..Len(arg.m_inner) : IsObjectType(arg.m_inner[i])

\* Whether the token of an argument can be rendered at all.
TokenRenders(arg) == RPCArg_ToString(arg).kind = "value"

C4_StateMachine ==
    /\ IsHelpCall /\ pc = "loop" =>
          /\ is_optional <=> OptionalBefore(call.m_args, idx)
          /\ result = NoResult
          /\ RequiredAfterOptional(call.m_args) => idx <= FirstForbidden(call.m_args)
    /\ HelpCallEnded /\ RequiredAfterOptional(call.m_args) =>
          LET j == FirstForbidden(call.m_args) IN
          /\ pc = "aborted"
          /\ result.kind = "abort"
          /\ idx <= j
          /\ idx = j <=> result = AssertionFailed("!is_optional")
          /\ (\A k \in 1..(j - 1) : TokenRenders(call.m_args[k])) => idx = j

C4_Transition ==
    IsHelpCall /\ pc = "loop" =>
        /\ is_optional => is_optional'
        /\ ~is_optional /\ pc' = "loop" => (is_optional' <=> call.m_args[idx].m_optional)
        /\ is_optional /\ idx <= Len(call.m_args) /\ ~call.m_args[idx].m_optional =>
              pc' = "aborted" /\ result' = AssertionFailed("!is_optional")

\* C4: the scan starts in state Required (is_optional false), moves to
\* Optional on the first optional argument and never back; a required
\* argument met in state Optional aborts the call with the failed assertion
\* at that argument, and a call whose arguments hold a required one after an
\* optional one never returns text.
C4_RequiredAfterOptionalAborts == []C4_StateMachine /\ [][C4_Transition]_vars

\* C4 witness: [optional, required], aborted at the second argument.
C4_Witness ==
    /\ IsHelpCall
    /\ pc = "aborted"
    /\ Len(call.m_args) = 2
    /\ call.m_args[1].m_optional
    /\ ~call.m_args[2].m_optional
    /\ idx = 2
    /\ result = AssertionFailed("!is_optional")

RECURSIVE SignatureTail(_, _)
\* For the arguments from position i on: a space, the opening marker in
\* front of the first optional one, the token.
SignatureTail(args, i) ==
    IF i > Len(args) THEN ""
    ELSE " " \o (IF args[i].m_optional /\ ~OptionalBefore(args, i) THEN "( " ELSE "")
             \o RPCArg_ToString(args[i]).value
             \o SignatureTail(args, i + 1)

ExpectedSignature(name, args) ==
    name \o SignatureTail(args, 1)
         \o (IF \E i \in 1..Len(args) : args[i].m_optional THEN " )" ELSE "")
         \o "\n"

C5Example ==
    <<RPCArg("required_a", "NUM", <<>>, FALSE),
      RPCArg("optional_b", "NUM", <<>>, TRUE),
      RPCArg("optional_c", "NUM", <<>>, TRUE)>>

\* C5: when the optional arguments form a suffix (and every token renders),
\* the signature is the name, then for each argument a space and its token,
\* with "( " once in front of the first optional token, " )" after the last
\* argument exactly when some argument is optional, and one line break; the
\* example gives "foo required_a ( optional_b optional_c )\n".
C5_SignatureText ==
    HelpCallEnded /\ ~RequiredAfterOptional(call.m_args)
                  /\ (\A i \in 1..Len(call.m_args) : TokenRenders(call.m_args[i])) =>
        /\ pc = "done"
        /\ result = Returned(ExpectedSignature(call.m_name, call.m_args))
        /\ call.m_name = "foo" /\ call.m_args = C5Example =>
              result = Returned("foo required_a ( optional_b optional_c )\n")

\* C5 witness: the example call has returned.
C5_Witness ==
    /\ HelpCallEnded
    /\ call.m_name = "foo"
    /\ call.m_args = C5Example
    /\ result.kind = "value"

\* C8: ToStringObj of an object (or object with free-form keys) fails its
\* assertion and gives no text; so ToString of an object with an object child
\* aborts, and so does the signature of a command that has such an argument.
C8_ObjectInObjectAborts ==
    /\ call.op = "RPCArg::ToStringObj" /\ IsObjectType(call.arg) =>
          pc = "aborted" /\ result = AssertionFailed("false")
    /\ call.op = "RPCArg::ToString" /\ IsObjectType(call.arg) /\ HasObjectChild(call.arg) =>
          pc = "aborted" /\ result = AssertionFailed("false")
    /\ ( /\ HelpCallEnded
         /\ \E i \in 1..Len(call.m_args) :
               IsObjectType(call.m_args[i]) /\ HasObjectChild(call.m_args[i]) ) =>
          pc = "aborted" /\ result.kind = "abort"

\* C8 witness: ToString of an object whose second child is an object, aborted
\* after the first child had been rendered.
C8_Witness ==
    /\ call.op = "RPCArg::ToString"
    /\ call.arg.m_type = "OBJ"
    /\ Len(call.arg.m_inner) = 2
    /\ call.arg.m_inner[1].m_type = "STR"
    /\ IsObjectType(call.arg.m_inner[2])
    /\ pc = "aborted"
    /\ result = AssertionFailed("false")

IsStructureCall == call.op = "RPCArg::ToStringObj"

Placeholder(type) ==
    CASE type = "STR" -> "\"str\""
      [] type = "STR_HEX" -> "\"hex\""
      [] type = "NUM" -> "n"
      [] type = "AMOUNT" -> "amount"
      [] type = "BOOL" -> "bool"

\* C9 as stated: a scalar is rendered as the quoted name, a colon, one space
\* and the placeholder.
C9_ColonSpacePlaceholder ==
    IsStructureCall /\ call.arg.m_type \in ScalarTypes =>
        result = Returned("\"" \o call.arg.m_name \o "\": " \o Placeholder(call.arg.m_type))

\* C9 amended: a scalar is rendered as the quoted name, a colon and the
\* placeholder with no space between them; an array as the quoted name, a
\* colon, "[", each child's token followed by a comma, and "...]".
C9_ColonPlaceholder ==
    IsStructureCall =>
        /\ call.arg.m_type \in ScalarTypes =>
              result = Returned("\"" \o call.arg.m_name \o "\":"
                                     \o Placeholder(call.arg.m_type))
        /\ ( /\ call.arg.m_type = "ARR"
             /\ Len(call.arg.m_inner) = 1
             /\ TokenRenders(call.arg.m_inner[1]) ) =>
              result = Returned("\"" \o call.arg.m_name \o "\":["
                                     \o RPCArg_ToString(call.arg.m_inner[1]).value
                                     \o ",...]")
        /\ call.arg = RPCArg("x", "ARR", <<RPCArg("n", "NUM", <<>>, FALSE)>>, FALSE) =>
              result = Returned("\"x\":[n,...]")
        /\ call.arg = RPCArg("x", "STR_HEX", <<>>, FALSE) =>
              result = Returned("\"x\":\"hex\"")

\* C9 witness: ToStringObj of a hex string has returned its description.
C9_Witness ==
    /\ IsStructureCall
    /\ pc = "done"
    /\ call.arg = RPCArg("x", "STR_HEX", <<>>, FALSE)
    /\ result.kind = "value"

IsTokenCall == call.op = "RPCArg::ToString"

ArrayOfString == RPCArg("x", "ARR", <<RPCArg("x", "STR", <<>>, FALSE)>>, FALSE)

\* C10: the token of an array is "[", the token of its child, ",...]" (for
\* a string child named x exactly ["x",...]); the token of a string or hex
\* string is the quoted name and of a number, amount or boolean the bare
\* name; arrays nested in arrays render level by level.
C10_ArrayToken ==
    IsTokenCall =>
        /\ call.arg.m_type \in {"STR", "STR_HEX"} =>
              result = Returned("\"" \o call.arg.m_name \o "\"")
        /\ call.arg.m_type \in {"NUM", "AMOUNT", "BOOL"} =>
              result = Returned(call.arg.m_name)
        /\ ( /\ call.arg.m_type = "ARR"
             /\ Len(call.arg.m_inner) = 1
             /\ TokenRenders(call.arg.m_inner[1]) ) =>
              result = Returned("[" \o RPCArg_ToString(call.arg.m_inner[1]).value
                                    \o ",...]")
        /\ call.arg = ArrayOfString => result = Returned("[\"x\",...]")
        /\ call.arg = RPCArg("x", "ARR", <<ArrayOfString>>, FALSE) =>
              result = Returned("[[\"x\",...],...]")

\* C10 witness: the token of an array of arrays of strings has been returned.
C10_Witness ==
    /\ IsTokenCall
    /\ pc = "done"
    /\ call.arg = RPCArg("x", "ARR", <<ArrayOfString>>, FALSE)
    /\ result.kind = "value"

====
